---- MODULE Spec2Model ----
(***************************************************************************)
(* spdx.package.Package and spdx.external_document_ref.ExternalDocumentRef *)
(* as state machines: the package's fields and its mutators, the           *)
(* validators with their message accumulator, calc_verif_code, and the     *)
(* equality / ordering / validation of external document references.       *)
(*                                                                         *)
(* Python values are modelled as follows.                                  *)
(*  - A string that the code orders or concatenates (digests, checksum     *)
(*    identifiers, document ids, URIs) is the sequence of its code points. *)
(*  - A package field whose value the code only tests (is None, truth      *)
(*    value, isinstance, has __str__) holds a token naming the kind of     *)
(*    value stored in it.                                                  *)
(*  - A message is a tuple <<template>> or <<template, argument>>: the     *)
(*    text of str.format's template and the value formatted into it.       *)
(*  - The modules target Python 2 and Python 3 (__future__ and six         *)
(*    imports); where the two interpreters differ the operator takes the   *)
(*    interpreter's major version as a parameter.                          *)
(***************************************************************************)
EXTENDS Integers, Sequences, FiniteSets, TLC

\* ------------------------------------------------------------------ bounds
\* Number of fields in which a package may differ from the package it was
\* built from (the fresh Package() or the fully populated one).
MaxChanged == 2
\* Longest files list, longest verif_exc_files list.
MaxFiles == 3
MaxExc == 1
\* Longest external document id.
MaxIdLen == 1

VARIABLES
    pkg,        \* the Package object: a record of its fields
    ref,        \* <<a, b>>: two ExternalDocumentRef objects
    op,         \* the last operation performed
    given,      \* its `messages` argument: [none |-> TRUE] when omitted
    messages,   \* the accumulator the operation worked on, afterwards
    ret,        \* the boolean a validator returned
    calls,      \* collaborator methods invoked, in order: <<method, index>>
    code,       \* outcome of calc_verif_code
    cmp         \* outcomes of a == b, a < b, b < a

vars == <<pkg, ref, op, given, messages, ret, calls, code, cmp>>

\* ----------------------------------------------------------------- strings
\* Code points of the characters used.
ChrA == <<97>>
ChrB == <<98>>

\* 'SHA1' and 'MD5' as code point sequences.
SHA1 == <<83, 72, 65, 49>>
MD5 == <<77, 68, 53>>

\* Python's str.__lt__: lexicographic order on code points, a proper prefix
\* being smaller.
StrLess(s, t) ==
    \E i \in 1..Len(t) :
        /\ i <= Len(s) + 1
        /\ \A j \in 1..(i - 1) : s[j] = t[j]
        /\ IF i = Len(s) + 1 THEN TRUE ELSE s[i] < t[i]

\* list.sort() on a list of str (insertion of each element in order).
RECURSIVE InsertSorted(_, _)
InsertSorted(x, s) ==
    IF s = <<>> THEN <<x>>
    ELSE IF StrLess(x, Head(s)) THEN <<x>> \o s
    ELSE <<Head(s)>> \o InsertSorted(x, Tail(s))

RECURSIVE SortStrs(_)
SortStrs(s) ==
    IF s = <<>> THEN <<>> ELSE InsertSorted(Head(s), SortStrs(Tail(s)))

\* ''.join(list of str)
RECURSIVE JoinStrs(_)
JoinStrs(s) ==
    IF s = <<>> THEN <<>> ELSE Head(s) \o JoinStrs(Tail(s))

\* ------------------------------------------------------------ collaborators
\* spdx.checksum.Algorithm(identifier, value), and the two other things a
\* check_sum / chk_sum attribute is seen to hold: None and a plain str.
NoChecksum == [type |-> "NoneType", identifier |-> <<>>, value |-> <<>>]
Algorithm(identifier, value) ==
    [type |-> "Algorithm", identifier |-> identifier, value |-> value]
StrChecksum == [type |-> "str", identifier |-> <<>>, value |-> <<>>]

\* isinstance(x, checksum.Algorithm)
IsAlgorithm(x) == x.type = "Algorithm"

\* spdx.file.File as the package uses it: chk_sum, calc_chksum() and
\* validate(messages).  calc_chksum() returns the digest of the file's
\* content; validate appends the file's diagnostics and returns its verdict.
FileRecord(name, chk_sum, content_sha1, valid, diag) ==
    [name |-> name, chk_sum |-> chk_sum, content_sha1 |-> content_sha1,
     valid |-> valid, diag |-> diag]

File_calc_chksum(f) == f.content_sha1

File_validate(f, msgs) == [ret |-> f.valid, messages |-> msgs \o f.diag]

\* hashlib.sha1(data).hexdigest(): an injective function of the data hashed.
Sha1Hex(data) == [sha1_of |-> data]

\* The files a package is given.
FileOk == FileRecord("a", Algorithm(SHA1, ChrB), ChrA, TRUE, <<>>)
FileBad == FileRecord("b", NoChecksum, ChrA \o ChrB, FALSE,
                      << <<"File name can not be None.">> >>)
FileSilent == FileRecord("c", Algorithm(MD5, ChrA), ChrA, FALSE, <<>>)
FileStored == FileRecord("b", Algorithm(SHA1, ChrA \o ChrB), ChrB, TRUE, <<>>)
FilePlain == FileRecord("a", StrChecksum, ChrB \o ChrA, FALSE,
                        << <<"File checksum must be instance of spdx.checksum.Algorithm">> >>)

ValidationFiles == {FileOk, FileBad, FileSilent}
FileRecords == {FileOk, FileBad, FileSilent, FileStored, FilePlain}
FileNames == {f.name : f \in FileRecords}

\* ----------------------------------------------------------------- Package
\* Kinds of value a string field holds: None, a str, an object whose
\* __str__ attribute is not callable.
StrFieldValues == {"None", "str", "NoStr"}
\* Kinds of value a license field holds.
LicenseValues == {"None", "License", "NoAssert", "SPDXNone", "str"}
\* Kinds of value supplier / originator hold ("''" is the empty str).
CreatorValues == {"None", "Creator", "NoAssert", "str", "''"}
PackageChecksums ==
    {NoChecksum, Algorithm(SHA1, ChrA), Algorithm(MD5, ChrA), StrChecksum}

\* Python's truth value of a field value.
Truthy(v) == v \notin {"None", "''"}

\* Package.__init__
Package(name, spdx_id, download_location, version, file_name, supplier, originator) ==
    [name |-> name,
     spdx_id |-> spdx_id,
     version |-> version,
     file_name |-> file_name,
     supplier |-> supplier,
     originator |-> originator,
     download_location |-> download_location,
     homepage |-> "None",
     verif_code |-> "None",
     check_sum |-> NoChecksum,
     source_info |-> "None",
     conc_lics |-> "None",
     license_declared |-> "None",
     license_comment |-> "None",
     licenses_from_files |-> <<>>,
     cr_text |-> "None",
     summary |-> "None",
     description |-> "None",
     files |-> <<>>,
     verif_exc_files |-> <<>>]

\* What a validator hands back: its return value, the accumulator, and the
\* collaborator calls it made.
Result(v, m, c) == [ret |-> v, messages |-> m, calls |-> c]

\* Package.validate_checksum
validate_checksum(self, msgs) ==
    IF self.check_sum.type = "NoneType" THEN Result(TRUE, msgs, <<>>)
    ELSE IF IsAlgorithm(self.check_sum)
    THEN IF self.check_sum.identifier = SHA1
         THEN Result(TRUE, msgs, <<>>)
         ELSE Result(FALSE,
                     Append(msgs, <<"File checksum algorithm must be SHA1">>),
                     <<>>)
    ELSE Result(FALSE,
                Append(msgs,
                    <<"Package checksum must be instance of spdx.checksum.Algorithm">>),
                <<>>)

\* The loop of Package.validate_str_fields from the i-th field on.
RECURSIVE StrFieldsLoop(_, _, _, _, _, _)
StrFieldsLoop(self, fields, i, optional, valid, msgs) ==
    IF i > Len(fields) THEN Result(valid, msgs, <<>>)
    ELSE LET field_str == fields[i]
             field == self[field_str]
         IN  IF field # "None"
             THEN IF field = "NoStr"
                  THEN StrFieldsLoop(self, fields, i + 1, optional, FALSE,
                           Append(msgs,
                               <<"{0} must provide __str__ method.", field>>))
                  ELSE StrFieldsLoop(self, fields, i + 1, optional, valid, msgs)
             ELSE IF ~optional
                  THEN StrFieldsLoop(self, fields, i + 1, optional, FALSE,
                           Append(msgs,
                               <<"Package {0} can not be None.", field_str>>))
                  ELSE StrFieldsLoop(self, fields, i + 1, optional, valid, msgs)

\* Package.validate_str_fields
validate_str_fields(self, fields, optional, msgs) ==
    StrFieldsLoop(self, fields, 1, optional, TRUE, msgs)

OptionalStrFields ==
    <<"file_name", "version", "homepage", "source_info", "summary",
      "description">>
MandatoryStrFields ==
    <<"name", "spdx_id", "download_location", "verif_code", "cr_text">>

\* Package.validate_optional_str_fields
validate_optional_str_fields(self, msgs) ==
    validate_str_fields(self, OptionalStrFields, TRUE, msgs)

\* Package.validate_mandatory_str_fields
validate_mandatory_str_fields(self, msgs) ==
    validate_str_fields(self, MandatoryStrFields, FALSE, msgs)

\* The loop of Package.validate_files from the i-th file on:
\*     valid = f.validate(messages) and valid
RECURSIVE FilesLoop(_, _, _, _, _)
FilesLoop(files, i, valid, msgs, invoked) ==
    IF i > Len(files) THEN Result(valid, msgs, invoked)
    ELSE LET r == File_validate(files[i], msgs)
         IN  FilesLoop(files, i + 1, r.ret /\ valid, r.messages,
                       Append(invoked, <<"validate", i>>))

\* The same loop with the operands swapped (valid and f.validate(messages)):
\* no file is validated once one has failed.
RECURSIVE FilesLoopShortCircuit(_, _, _, _, _)
FilesLoopShortCircuit(files, i, valid, msgs, invoked) ==
    IF i > Len(files) THEN Result(valid, msgs, invoked)
    ELSE IF ~valid
         THEN FilesLoopShortCircuit(files, i + 1, FALSE, msgs, invoked)
         ELSE LET r == File_validate(files[i], msgs)
              IN  FilesLoopShortCircuit(files, i + 1, r.ret, r.messages,
                                        Append(invoked, <<"validate", i>>))

validate_files_short_circuit(self, msgs) ==
    IF self.files = <<>>
    THEN Result(FALSE, Append(msgs, <<"Package must have at least one file.">>),
                <<>>)
    ELSE FilesLoopShortCircuit(self.files, 1, TRUE, msgs, <<>>)

\* Package.validate_files
validate_files(self, msgs) ==
    IF self.files = <<>>
    THEN Result(FALSE, Append(msgs, <<"Package must have at least one file.">>),
                <<>>)
    ELSE FilesLoop(self.files, 1, TRUE, msgs, <<>>)

\* isinstance(x, (utils.SPDXNone, utils.NoAssert, document.License))
IsLicenseLike(x) == x \in {"SPDXNone", "NoAssert", "License"}

\* reduce(license_from_file_check, licenses_from_files, True)
RECURSIVE ReduceLicenseCheck(_, _)
ReduceLicenseCheck(prev, lics) ==
    IF lics = <<>> THEN prev
    ELSE ReduceLicenseCheck(prev /\ IsLicenseLike(Head(lics)), Tail(lics))

\* The step without `valid = False`: the message is appended, the verdict kept.
CheckVerdictKept(r, failed, text) ==
    IF failed THEN Result(r.ret, Append(r.messages, <<text>>), r.calls) ELSE r

\* One `if cond: messages.append(text); valid = False` step.
Check(r, failed, text) ==
    IF failed THEN Result(FALSE, Append(r.messages, <<text>>), r.calls) ELSE r

\* Package.validate_mandatory_fields
validate_mandatory_fields(self, msgs) ==
    LET r0 == Result(TRUE, msgs, <<>>)
        r1 == Check(r0, ~IsLicenseLike(self.conc_lics),
                  "Package concluded license must be instance of spdx.utils.SPDXNone or spdx.utils.NoAssert or spdx.document.License")
        r2 == Check(r1, ~IsLicenseLike(self.license_declared),
                  "Package declared license must be instance of spdx.utils.SPDXNone or spdx.utils.NoAssert or spdx.document.License")
        r3 == Check(r2, ~ReduceLicenseCheck(TRUE, self.licenses_from_files),
                  "Each element in licenses_from_files must be instance of spdx.utils.SPDXNone or spdx.utils.NoAssert or spdx.document.License")
    IN  Check(r3, self.licenses_from_files = <<>>,
              "Package licenses_from_files can not be empty")

\* isinstance(x, (utils.NoAssert, creationinfo.Creator))
IsCreatorLike(x) == x \in {"NoAssert", "Creator"}

\* Package.validate_optional_fields
validate_optional_fields(self, msgs) ==
    LET r0 == Result(TRUE, msgs, <<>>)
        r1 == Check(r0, Truthy(self.originator) /\ ~IsCreatorLike(self.originator),
                  "Package originator must be instance of spdx.utils.NoAssert or spdx.creationinfo.Creator")
    IN  Check(r1, Truthy(self.supplier) /\ ~IsCreatorLike(self.supplier),
              "Package supplier must be instance of spdx.utils.NoAssert or spdx.creationinfo.Creator")

\* Python's `a and b` over validators: when a returned True the result is
\* b's, b having run on the accumulator a left; otherwise b is not run.
AndThen(a, b) ==
    IF a.ret THEN Result(b.ret, b.messages, a.calls \o b.calls) ELSE a

\* Package.validate, after `messages = messages if messages is not None else []`
validate(self, msgs) ==
    LET r1 == validate_checksum(self, msgs)
        r2 == AndThen(r1, validate_optional_str_fields(self, r1.messages))
        r3 == AndThen(r2, validate_mandatory_str_fields(self, r2.messages))
        r4 == AndThen(r3, validate_files(self, r3.messages))
        r5 == AndThen(r4, validate_mandatory_fields(self, r4.messages))
    IN  AndThen(r5, validate_optional_fields(self, r5.messages))

\* ----------------------------------------------------------- calc_verif_code
PythonVersions == {2, 3}

\* Outcome of a call that returns a value or raises TypeError.
Returned(py, v) == [py |-> py, raised |-> FALSE, value |-> <<v>>]
RaisedTypeError(py) == [py |-> py, raised |-> TRUE, value |-> <<>>]
NoOutcome == [py |-> 0, raised |-> FALSE, value |-> <<>>]

\* The loop of Package.calc_verif_code from the i-th file on: the digests
\* collected and the calc_chksum() calls made.
RECURSIVE HashesLoop(_, _, _, _)
HashesLoop(files, i, hashes, invoked) ==
    IF i > Len(files) THEN [hashes |-> hashes, calls |-> invoked]
    ELSE LET file_entry == files[i]
         IN  IF /\ IsAlgorithm(file_entry.chk_sum)
                /\ file_entry.chk_sum.identifier = SHA1
             THEN HashesLoop(files, i + 1,
                             Append(hashes, file_entry.chk_sum.value), invoked)
             ELSE HashesLoop(files, i + 1,
                             Append(hashes, File_calc_chksum(file_entry)),
                             Append(invoked, <<"calc_chksum", i>>))

\* sha1 = hashlib.sha1(); sha1.update(''.join(hashes)); sha1.hexdigest().
\* With unicode_literals the joined text is a unicode str: Python 2 encodes
\* it (ASCII) and hashes it, Python 3 raises TypeError (str is not bytes).
HashJoined(hashes, py) ==
    IF py = 3 THEN RaisedTypeError(py)
    ELSE Returned(py, Sha1Hex(JoinStrs(hashes)))

\* calc_verif_code without hashes.sort().
calc_verif_code_unsorted(self, py) ==
    LET h == HashesLoop(self.files, 1, <<>>, <<>>)
    IN  [outcome |-> HashJoined(h.hashes, py), calls |-> h.calls]

\* Package.calc_verif_code
calc_verif_code(self, py) ==
    LET h == HashesLoop(self.files, 1, <<>>, <<>>)
    IN  [outcome |-> HashJoined(SortStrs(h.hashes), py), calls |-> h.calls]

\* ------------------------------------------------------ ExternalDocumentRef
\* A str-or-None attribute.
NoneValue == [type |-> "NoneType", s |-> <<>>]
Str(s) == [type |-> "str", s |-> s]

\* ExternalDocumentRef.__init__
ExternalDocumentRef(external_document_id, spdx_document_uri, check_sum) ==
    [external_document_id |-> external_document_id,
     spdx_document_uri |-> spdx_document_uri,
     check_sum |-> check_sum]

\* Truth value of an attribute: None and '' are false, any other str and
\* any Algorithm object is true.
AttrTruthy(x) ==
    IF x.type = "str" THEN x.s # <<>> ELSE x.type # "NoneType"

\* checksum.Algorithm ordering: by (identifier, value).
AlgorithmLess(x, y) ==
    \/ StrLess(x.identifier, y.identifier)
    \/ x.identifier = y.identifier /\ StrLess(x.value, y.value)

\* x < y for two attribute values.  Between None and anything else
\* Python 2 orders None first and Python 3 raises TypeError.
ValueLess(x, y, py) ==
    IF x.type = "str" /\ y.type = "str"
    THEN Returned(py, StrLess(x.s, y.s))
    ELSE IF x.type = "Algorithm" /\ y.type = "Algorithm"
    THEN Returned(py, AlgorithmLess(x, y))
    ELSE IF py = 3 THEN RaisedTypeError(py)
    ELSE Returned(py, x.type = "NoneType" /\ y.type # "NoneType")

\* Python's tuple < tuple: the first pair of unequal items decides.
RECURSIVE TupleLess(_, _, _)
TupleLess(a, b, py) ==
    IF a = <<>> \/ b = <<>> THEN Returned(py, Len(a) < Len(b))
    ELSE IF Head(a) = Head(b) THEN TupleLess(Tail(a), Tail(b), py)
    ELSE ValueLess(Head(a), Head(b), py)

\* __eq__ without the comparison of check_sum.
ExternalDocumentRef_eq_no_checksum(self, other) ==
    /\ self.external_document_id = other.external_document_id
    /\ self.spdx_document_uri = other.spdx_document_uri

\* ExternalDocumentRef.__eq__ (other is an ExternalDocumentRef)
ExternalDocumentRef_eq(self, other) ==
    /\ self.external_document_id = other.external_document_id
    /\ self.spdx_document_uri = other.spdx_document_uri
    /\ self.check_sum = other.check_sum

\* ExternalDocumentRef.__lt__
ExternalDocumentRef_lt(self, other, py) ==
    TupleLess(<<self.external_document_id, self.spdx_document_uri,
                self.check_sum>>,
              <<other.external_document_id, other.spdx_document_uri,
                other.check_sum>>, py)

\* ExternalDocumentRef.validate_ext_doc_id
validate_ext_doc_id(self, msgs) ==
    IF AttrTruthy(self.external_document_id) THEN Result(TRUE, msgs, <<>>)
    ELSE Result(FALSE,
                Append(msgs, <<"ExternalDocumentRef has no External Document ID.">>),
                <<>>)

\* ExternalDocumentRef.validate_spdx_doc_uri
validate_spdx_doc_uri(self, msgs) ==
    IF AttrTruthy(self.spdx_document_uri) THEN Result(TRUE, msgs, <<>>)
    ELSE Result(FALSE,
                Append(msgs, <<"ExternalDocumentRef has no SPDX Document URI.">>),
                <<>>)

\* ExternalDocumentRef.validate_chksum
validate_chksum(self, msgs) ==
    IF AttrTruthy(self.check_sum) THEN Result(TRUE, msgs, <<>>)
    ELSE Result(FALSE,
                Append(msgs, <<"ExternalDocumentRef has no Checksum.">>),
                <<>>)

\* ExternalDocumentRef.validate, after the defaulting of `messages`
ExternalDocumentRef_validate(self, msgs) ==
    LET r1 == validate_ext_doc_id(self, msgs)
        r2 == AndThen(r1, validate_spdx_doc_uri(self, r1.messages))
    IN  AndThen(r2, validate_chksum(self, r2.messages))

\* ------------------------------------------------------------ state machine
\* The `messages` argument of a validator: omitted (None) or a list.
NoMessages == [none |-> TRUE, list |-> <<>>]
MessageList(l) == [none |-> FALSE, list |-> l]
GivenMessages == {NoMessages, MessageList(<< <<"Document has no version.">> >>)}

\* messages = messages if messages is not None else []
Accumulator(g) == IF g.none THEN <<>> ELSE g.list

NoComparison ==
    [eq |-> FALSE, lt |-> NoOutcome, gt |-> NoOutcome]

\* The freshly constructed objects.
Fresh == Package("None", "None", "None", "None", "None", "None", "None")
NoRef == ExternalDocumentRef(NoneValue, NoneValue, NoChecksum)

\* A package as a builder leaves it: constructed with its name, id and
\* download location, the other mandatory fields assigned, one license and
\* one file added.
Populated ==
    [Package("str", "str", "str", "None", "None", "None", "None")
        EXCEPT !.verif_code = "str",
               !.cr_text = "str",
               !.conc_lics = "License",
               !.license_declared = "NoAssert",
               !.licenses_from_files = <<"License">>,
               !.files = <<FileOk>>]

\* The fields set by assignment, and the values assigned to each.
AssignedFields ==
    {"name", "spdx_id", "version", "file_name", "supplier", "originator",
     "download_location", "homepage", "verif_code", "check_sum",
     "source_info", "conc_lics", "license_declared", "license_comment",
     "cr_text", "summary", "description"}

FieldValues(f) ==
    IF f = "check_sum" THEN PackageChecksums
    ELSE IF f \in {"conc_lics", "license_declared"} THEN LicenseValues
    ELSE IF f \in {"supplier", "originator"} THEN CreatorValues
    ELSE StrFieldValues

\* Number of changes that lead from package b to package p: fields assigned
\* and list elements appended.
IsPrefix(s, t) == Len(s) <= Len(t) /\ SubSeq(t, 1, Len(s)) = s

Appended(l, b) == IF IsPrefix(b, l) THEN Len(l) - Len(b) ELSE MaxChanged + 1

Changed(p, b) ==
    Cardinality({f \in AssignedFields : p[f] # b[f]})
    + Appended(p.files, b.files)
    + Appended(p.licenses_from_files, b.licenses_from_files)
    + Appended(p.verif_exc_files, b.verif_exc_files)

WithinChanges(p) == \E b \in {Fresh, Populated} : Changed(p, b) <= MaxChanged

Init ==
    /\ pkg \in {Fresh, Populated}
    /\ ref = <<NoRef, NoRef>>
    /\ op = "init"
    /\ given = NoMessages
    /\ messages = <<>>
    /\ ret = FALSE
    /\ calls = <<>>
    /\ code = NoOutcome
    /\ cmp = NoComparison

\* A mutator ran: no validator or calculation result is current.
Mutated(o) ==
    /\ op' = o
    /\ given' = NoMessages
    /\ messages' = <<>>
    /\ ret' = FALSE
    /\ calls' = <<>>
    /\ code' = NoOutcome
    /\ cmp' = NoComparison
    /\ UNCHANGED ref

\* A validator ran on accumulator g and handed back r.
Validated(o, g, r) ==
    /\ op' = o
    /\ given' = g
    /\ messages' = r.messages
    /\ ret' = r.ret
    /\ calls' = r.calls
    /\ code' = NoOutcome
    /\ cmp' = NoComparison
    /\ UNCHANGED <<pkg, ref>>

\* package.<field> = v
SetField(f, v) ==
    /\ pkg[f] # v
    /\ pkg' = [pkg EXCEPT ![f] = v]
    /\ Mutated("assign")

\* Package.add_file
add_file(fil) ==
    /\ Len(pkg.files) < MaxFiles
    /\ pkg' = [pkg EXCEPT !.files = Append(@, fil)]
    /\ Mutated("add_file")

\* Package.add_lics_from_file
add_lics_from_file(lics) ==
    /\ pkg' = [pkg EXCEPT !.licenses_from_files = Append(@, lics)]
    /\ Mutated("add_lics_from_file")

\* Package.add_exc_file
add_exc_file(filename) ==
    /\ Len(pkg.verif_exc_files) < MaxExc
    /\ pkg' = [pkg EXCEPT !.verif_exc_files = Append(@, filename)]
    /\ Mutated("add_exc_file")

Validate(g) == Validated("validate", g, validate(pkg, Accumulator(g)))

ValidateFiles(g) ==
    Validated("validate_files", g, validate_files(pkg, Accumulator(g)))

CalcVerifCode(py) ==
    LET r == calc_verif_code(pkg, py)
    IN  /\ op' = "calc_verif_code"
        /\ code' = r.outcome
        /\ calls' = r.calls
        /\ given' = NoMessages
        /\ messages' = <<>>
        /\ ret' = FALSE
        /\ cmp' = NoComparison
        /\ UNCHANGED <<pkg, ref>>

\* Package validation: a package is built by assignments and additions and
\* validated at any point.
Next ==
    \/ \E f \in AssignedFields : \E v \in FieldValues(f) :
            SetField(f, v) /\ WithinChanges(pkg')
    \/ \E fil \in ValidationFiles : add_file(fil) /\ WithinChanges(pkg')
    \/ \E lics \in LicenseValues \ {"None"} :
            add_lics_from_file(lics) /\ WithinChanges(pkg')
    \/ \E g \in GivenMessages : Validate(g)

Spec == Init /\ [][Next]_vars

\* The package's files: files and excluded names are added, the files are
\* validated and the verification code is calculated at any point.
NextFiles ==
    \/ \E fil \in FileRecords : add_file(fil)
    \/ \E filename \in FileNames : add_exc_file(filename)
    \/ \E g \in GivenMessages : ValidateFiles(g)
    \/ \E py \in PythonVersions : CalcVerifCode(py)

SpecFiles == Init /\ [][NextFiles]_vars

\* External document references: two references are constructed, compared
\* and validated.
Chars == {ChrA, ChrB}

RECURSIVE StringsUpTo(_)
StringsUpTo(n) ==
    IF n = 0 THEN {<<>>}
    ELSE LET shorter == StringsUpTo(n - 1)
         IN  shorter \cup {s \o c : s \in shorter, c \in Chars}

DocumentIds == {NoneValue} \cup {Str(s) : s \in StringsUpTo(MaxIdLen)}
DocumentUris == {NoneValue, Str(<<>>), Str(ChrA), Str(ChrB)}
RefChecksums ==
    {NoChecksum, Algorithm(SHA1, ChrA), Algorithm(SHA1, ChrB),
     Algorithm(MD5, ChrB)}
Refs ==
    {ExternalDocumentRef(i, u, c) :
        i \in DocumentIds, u \in DocumentUris, c \in RefChecksums}

InitRef ==
    /\ pkg = Fresh
    /\ ref \in Refs \X Refs
    /\ op = "init"
    /\ given = NoMessages
    /\ messages = <<>>
    /\ ret = FALSE
    /\ calls = <<>>
    /\ code = NoOutcome
    /\ cmp = NoComparison

\* a == b, a < b and b < a are evaluated.
Compare(py) ==
    /\ op' = "compare"
    /\ cmp' = [eq |-> ExternalDocumentRef_eq(ref[1], ref[2]),
               lt |-> ExternalDocumentRef_lt(ref[1], ref[2], py),
               gt |-> ExternalDocumentRef_lt(ref[2], ref[1], py)]
    /\ given' = NoMessages
    /\ messages' = <<>>
    /\ ret' = FALSE
    /\ calls' = <<>>
    /\ code' = NoOutcome
    /\ UNCHANGED <<pkg, ref>>

\* a.validate(messages)
ValidateRef(g) ==
    Validated("ref_validate", g,
              ExternalDocumentRef_validate(ref[1], Accumulator(g)))

NextRef ==
    \/ \E py \in PythonVersions : Compare(py)
    \/ \E g \in GivenMessages : ValidateRef(g)

SpecRef == InitRef /\ [][NextRef]_vars

\* ------------------------------------------------------------------ claims
Range(s) == {s[i] : i \in DOMAIN s}

\* The messages each of the six checks of validate leaves when run on its
\* own on an empty accumulator.
OwnMessages(self) ==
    Range(validate_checksum(self, <<>>).messages)
    \cup Range(validate_optional_str_fields(self, <<>>).messages)
    \cup Range(validate_mandatory_str_fields(self, <<>>).messages)
    \cup Range(validate_files(self, <<>>).messages)
    \cup Range(validate_mandatory_fields(self, <<>>).messages)
    \cup Range(validate_optional_fields(self, <<>>).messages)

\* C1: after Package.validate the accumulator holds the messages of every
\* one of the six checks that fails on its own, whether or not an earlier
\* check has failed.
C1_AllChecksReport ==
    op = "validate" => OwnMessages(pkg) \subseteq Range(messages)

\* C2: for a package without files, validate returns False and the
\* accumulator holds "Package must have at least one file.".
C2_EmptyFilesReported ==
    (op = "validate" /\ pkg.files = <<>>) =>
        /\ ret = FALSE
        /\ <<"Package must have at least one file.">> \in Range(messages)

\* The orders in which the files of a list can have been added.
Orders(files) ==
    LET n == Len(files)
        perms == {p \in [1..n -> 1..n] : \A i, j \in 1..n : p[i] = p[j] => i = j}
    IN  {[i \in 1..n |-> files[p[i]]] : p \in perms}

\* The digest calc_verif_code uses for a file.
DigestUsed(f) ==
    IF f.chk_sum.type = "Algorithm" /\ f.chk_sum.identifier = SHA1
    THEN f.chk_sum.value
    ELSE f.content_sha1

\* C3: calc_verif_code has the same outcome for every order in which the
\* package's files were added.
C3_OrderIndependent ==
    op = "calc_verif_code" =>
        \A files \in Orders(pkg.files) :
            calc_verif_code([pkg EXCEPT !.files = files], code.py).outcome = code

\* A verification code was returned for files whose digests were collected
\* out of order.
C3_Witness ==
    /\ op = "calc_verif_code"
    /\ ~code.raised
    /\ \E i, j \in 1..Len(pkg.files) :
          i < j /\ StrLess(DigestUsed(pkg.files[j]), DigestUsed(pkg.files[i]))

\* C4: calc_verif_code returns the SHA1 of the concatenation of the sorted
\* digests, a file's digest being its stored SHA1 value or else the result
\* of its calc_chksum, which is called for exactly the files without a
\* stored SHA1.
C4_Sha1OfSortedDigests ==
    op = "calc_verif_code" =>
        LET digests == [i \in 1..Len(pkg.files) |-> DigestUsed(pkg.files[i])]
            computed == {i \in 1..Len(pkg.files) :
                            ~(/\ pkg.files[i].chk_sum.type = "Algorithm"
                              /\ pkg.files[i].chk_sum.identifier = SHA1)}
        IN  /\ ~code.raised
            /\ code.value = <<Sha1Hex(JoinStrs(SortStrs(digests)))>>
            /\ Range(calls) = {<<"calc_chksum", i>> : i \in computed}
            /\ Len(calls) = Cardinality(computed)

\* The files whose names are not in verif_exc_files.
NotExcluded(self) ==
    LET kept(f) == f.name \notin Range(self.verif_exc_files)
    IN  SelectSeq(self.files, kept)

\* C5: calc_verif_code equals the code computed over the files whose names
\* are not in verif_exc_files.
C5_ExcludedFilesLeftOut ==
    op = "calc_verif_code" =>
        code = calc_verif_code([pkg EXCEPT !.files = NotExcluded(pkg)],
                               code.py).outcome

Absent(x) == ~AttrTruthy(x)

\* C6: after ExternalDocumentRef.validate the accumulator holds one message
\* for each absent field, and validate returns False iff a field is absent.
C6_AllAbsentFieldsReported ==
    op = "ref_validate" =>
        LET a == ref[1]
        IN  /\ Absent(a.external_document_id) =>
                <<"ExternalDocumentRef has no External Document ID.">>
                    \in Range(messages)
            /\ Absent(a.spdx_document_uri) =>
                <<"ExternalDocumentRef has no SPDX Document URI.">>
                    \in Range(messages)
            /\ Absent(a.check_sum) =>
                <<"ExternalDocumentRef has no Checksum.">> \in Range(messages)
            /\ ret = FALSE <=>
                \/ Absent(a.external_document_id)
                \/ Absent(a.spdx_document_uri)
                \/ Absent(a.check_sum)

\* All three fields of a reference hold a value.
Present(r) ==
    /\ r.external_document_id.type = "str"
    /\ r.spdx_document_uri.type = "str"
    /\ r.check_sum.type = "Algorithm"

\* a before b in the lexicographic order on (id, URI, checksum).
LexLess(a, b) ==
    \/ StrLess(a.external_document_id.s, b.external_document_id.s)
    \/ /\ a.external_document_id.s = b.external_document_id.s
       /\ \/ StrLess(a.spdx_document_uri.s, b.spdx_document_uri.s)
          \/ /\ a.spdx_document_uri.s = b.spdx_document_uri.s
             /\ AlgorithmLess(a.check_sum, b.check_sum)

\* C7: for two references with all fields present, exactly one of a < b,
\* a == b, b < a holds, a == b holds iff the three fields are equal, and
\* a < b is the lexicographic order on (id, URI, checksum).
C7_TotalOrder ==
    (op = "compare" /\ Present(ref[1]) /\ Present(ref[2])) =>
        LET a == ref[1]
            b == ref[2]
            lt == cmp.lt.value = <<TRUE>>
            gt == cmp.gt.value = <<TRUE>>
        IN  /\ ~cmp.lt.raised /\ ~cmp.gt.raised
            /\ Cardinality({k \in {"lt", "eq", "gt"} :
                   \/ k = "lt" /\ lt
                   \/ k = "eq" /\ cmp.eq
                   \/ k = "gt" /\ gt}) = 1
            /\ cmp.eq <=>
                /\ a.external_document_id.s = b.external_document_id.s
                /\ a.spdx_document_uri.s = b.spdx_document_uri.s
                /\ a.check_sum.identifier = b.check_sum.identifier
                /\ a.check_sum.value = b.check_sum.value
            /\ lt <=> LexLess(a, b)
            /\ gt <=> LexLess(b, a)

\* Two references that differ in the checksum only were compared, and the
\* checksum decided.
C7_Witness ==
    /\ op = "compare"
    /\ Present(ref[1]) /\ Present(ref[2])
    /\ ref[1].external_document_id = ref[2].external_document_id
    /\ ref[1].spdx_document_uri = ref[2].spdx_document_uri
    /\ ref[1].external_document_id.s # <<>>
    /\ ref[1].check_sum # ref[2].check_sum
    /\ cmp.lt.value = <<TRUE>>
    /\ ~cmp.eq

\* C8: comparing two references never aborts; a reference whose id is
\* absent comes before one whose id is present.
C8_ComparisonNeverAborts ==
    op = "compare" =>
        /\ ~cmp.lt.raised
        /\ ~cmp.gt.raised
        /\ (/\ ref[1].external_document_id.type = "NoneType"
            /\ ref[2].external_document_id.type = "str") =>
                cmp.lt.value = <<TRUE>>

\* The diagnostics of all files, in order.
RECURSIVE AllDiags(_)
AllDiags(files) ==
    IF files = <<>> THEN <<>> ELSE Head(files).diag \o AllDiags(Tail(files))

\* C9: on a non-empty files list validate_files calls validate on every
\* file once, in order, returns the conjunction of the files' verdicts, and
\* leaves the diagnostics of every file in the accumulator.
C9_EveryFileValidated ==
    (op = "validate_files" /\ pkg.files # <<>>) =>
        /\ calls = [i \in 1..Len(pkg.files) |-> <<"validate", i>>]
        /\ ret = (\A i \in 1..Len(pkg.files) : pkg.files[i].valid)
        /\ messages = Accumulator(given) \o AllDiags(pkg.files)

\* validate_files ran on a list whose first file fails and whose later
\* file's diagnostics are in the accumulator.
C9_Witness ==
    /\ op = "validate_files"
    /\ Len(pkg.files) >= 2
    /\ ~pkg.files[1].valid
    /\ pkg.files[2].diag # <<>>
    /\ Range(pkg.files[2].diag) \subseteq Range(messages)
    /\ ret = FALSE

\* A file's validate appends a message exactly when it returns False.
Honest(f) == (f.diag # <<>>) <=> ~f.valid

\* C10: Package.validate only appends to the accumulator, and when every
\* file's validate appends exactly when it fails, validate returns True iff
\* it appended nothing.
C10_VerdictAgreesWithMessages ==
    op = "validate" =>
        /\ IsPrefix(Accumulator(given), messages)
        /\ (\A i \in 1..Len(pkg.files) : Honest(pkg.files[i])) =>
                (ret <=> messages = Accumulator(given))

\* validate returned True on a caller's list and left it as it was.
C10_Witness ==
    /\ op = "validate"
    /\ ~given.none
    /\ given.list # <<>>
    /\ ret
    /\ messages = given.list
    /\ pkg.files # <<>>

====
